---- MODULE Spec2Model ----
(***************************************************************************)
(* generateideas.py: a script that builds a pool of associates and writes  *)
(* two CSV tables, ideas.csv and idea_team.csv, from random draws.          *)
(*                                                                         *)
(* The state is the script's module-level data (associates), the position  *)
(* of the module body and of the two loops, the two files on disk, the     *)
(* open file handles, the standard output and the uncaught exception.      *)
(* A file is the sequence of rows csv.writer.writerow has written, one row *)
(* per line in writing order, each row the list of fields it was given.    *)
(***************************************************************************)
EXTENDS Integers, Sequences, FiniteSets, TLC

VARIABLES
    rng,          \* the random source of the run (see Pick)
    pc,           \* position in the module body
    associates,   \* the module-level list of associates (line 37)
    idea_id,      \* the loop variable of the running pass
    members,      \* rows the inner loop of generate_idea_team_csv still writes
    ideas_csv,    \* the file ideas.csv on disk
    idea_team_csv,\* the file idea_team.csv on disk
    open_files,   \* names of the files with an open handle
    stdout,       \* what print has written
    error,        \* the file whose I/O raised the uncaught exception, or NoError
    ret           \* the value returned by a direct call of generate_idea_data

vars == << rng, pc, associates, idea_id, members, ideas_csv, idea_team_csv,
           open_files, stdout, error, ret >>

(***************************************************************************)
(* Bounds and program constants.                                           *)
(***************************************************************************)
\* range(1, 5001) on lines 97 and 107: the number of ideas, scaled down.
NumIdeas == 3

\* range(1, 301) on line 37.
NumAssociates == 300

\* random.randint(1, 300) on line 41.
MaxSubmitterId == 300

\* random.randint(1, 100) on line 68.
MaxScore == 100

\* random.randint(1, 5) on line 108.
MaxTeamSize == 5

\* random.randint(1, 4) on line 62.
NumQuarters == 4

NoError == "none"

(***************************************************************************)
(* The vocabularies (lines 10-34).                                         *)
(***************************************************************************)
business_opportunities ==
    << "Proprietary models", "AI for Industry", "Orchestration & MCP", "AI for creative",
       "Finops for AI", "Pre-built partner solution (e.g., Omniverse, COSMOS, Agentforce, NOW Assist)",
       "Responsible AI", "Classical AI/ML/DL for prediction/recommendations", "Agentic AI",
       "AI for Cybersecurity & CyberSecurity for AI", "Agents and APIs", "AI for Organization",
       "AI in service line", "Virtual workers/copilots", "Deep tech research", "AI in software engineering lifecycle",
       "Multi-modal UX", "Edge AI", "AI for Data & Data for AI", "Open source/open weight models",
       "AI for accessibility", "GenAI & its techniques" >>

business_groups ==
    << "Hi-Tech", "Energy, Utilities, Resources & Services (EURS)", "Innovation Labs / R&D",
       "Centers of Excellence (AI CoE, Cloud CoE, Automation CoE, Cyber CoE)",
       "Application Development & Maintenance (ADM)", "Cloud, Infrastructure & Security",
       "Product Engineering & IoT", "Digital Transformation Group", "Public Sector & Government",
       "Emerging Tech (Quantum / Blockchain / Metaverse / Web3)", "Operations & Delivery Excellence",
       "Finance & Procurement", "Education & EdTech", "Human Resources (HR)",
       "Healthcare, Life Sciences & Insurance (HILSI)", "Enterprise Architecture Group",
       "Enterprise Business Applications (SAP / Oracle / Salesforce / Workday)",
       "Business Process Management (BPM / BPO)", "Communications, Media & Technology (CMT)",
       "Business Group", "Travel, Hospitality & Services (THS)", "Manufacturing (MFG)",
       "Data, AI & Analytics", "Management Consulting", "Automation & AI Ops", "Cybersecurity & Zero Trust",
       "Retail, Consumer Goods & Logistics (RCL)", "Banking, Financial Services & Insurance (BFSI)",
       "Sales, Marketing & Alliances" >>

\* The inline vocabularies of lines 37/79, 47, 48, 63, 64, 65.
roles == << "Developer", "Project Manager" >>
scalabilities == << "Highly scalable", "Moderate scalability" >>
novelties == << "Highly novel", "Moderate novelty" >>
build_phases == << "Prototype", "Development", "MVP" >>
build_preferences == << "New Solution / IP", "Existing Solution / IP" >>
code_preferences == << "Python", "AI/ML", "Java", "JavaScript", "Flutter" >>

\* Values the Faker library returns, by sample: fake.name(), fake.slug(),
\* fake.date_this_decade() (the date as csv writes it).
fake_names == << "Alex Morgan", "Sam Lee" >>
fake_slugs == << "alpha-beta", "gamma-delta" >>
fake_dates == << "2020-01-01", "2024-06-15" >>

(***************************************************************************)
(* The random source.  Every call site of random and fake has a name.  A   *)
(* run's random source decides, per call site, which of the outcomes the   *)
(* call can return it does return in this run: all of them, the smallest   *)
(* and the largest, the two smallest, or the smallest only.                *)
(***************************************************************************)
Min(S) == CHOOSE x \in S : \A y \in S : x <= y
Max(S) == CHOOSE x \in S : \A y \in S : x >= y

RngSizes == "sizes"            \* team sizes vary
RngAssociates == "associates"  \* team sizes and the associates drawn vary
RngPrimary == "primary"        \* team sizes and primary flags vary
RngNumeric == "numeric"        \* submitter ids and scores vary
RngVocabulary == "vocabulary"  \* the three vocabulary draws of an idea vary

SitesAll ==
    [ sizes      |-> {"team_size"},
      associates |-> {},
      primary    |-> {"is_primary"},
      numeric    |-> {"submitter_id", "score"},
      vocabulary |-> {"business_opportunity", "business_group", "challenge_opportunity"} ]

SitesEnds ==
    [ sizes |-> {}, associates |-> {"associate"}, primary |-> {},
      numeric |-> {}, vocabulary |-> {} ]

SitesLow ==
    [ sizes |-> {}, associates |-> {"team_size"}, primary |-> {"team_size"},
      numeric |-> {}, vocabulary |-> {} ]

\* The outcomes of a draw at `site` whose possible outcomes are the integers S.
Pick(site, S) ==
    IF S = {} THEN {}
    ELSE IF site \in SitesAll[rng] THEN S
    ELSE IF site \in SitesEnds[rng] THEN {Min(S), Max(S)}
    ELSE IF site \in SitesLow[rng] THEN {Min(S)} \cup (S \cap {Min(S) + 1})
    ELSE {Min(S)}

\* random.randint(a, b): an integer N with a <= N <= b.
randint(site, a, b) == Pick(site, a..b)

\* random.choice(seq): one element of the sequence.
choice(site, seq) == { seq[i] : i \in Pick(site, 1..Len(seq)) }

\* As random_below_tenth, the threshold 0.0 in place of 0.1.
random_below_zero(site) == { r < 0 : r \in Pick(site, {0, 99, 100, 999}) }

\* random.random() < 0.1 (line 81): random() is in [0, 1), in thousandths.
random_below_tenth(site) == { r < 100 : r \in Pick(site, {0, 99, 100, 999}) }

\* range(a, b): the integers a, a+1, ..., b-1 in order.
range(a, b) == [ start |-> a, stop |-> b ]

\* The values a loop over the range r binds, in order.
Items(r) == [ i \in 1..(IF r.stop > r.start THEN r.stop - r.start ELSE 0) |-> r.start + i - 1 ]

\* range(1, 301) on line 37, range(1, 5001) on line 97 and on line 107.
\* As associates_range, range(300) in place of range(1, 301).
associates_range_from_zero == range(0, NumAssociates)
associates_range == range(1, NumAssociates + 1)
\* As ideas_range, range(1, 5000) in place of range(1, 5001).
ideas_range_short == range(1, NumIdeas)
ideas_range == range(1, NumIdeas + 1)
\* As team_range, range(1, 5000) in place of range(1, 5001).
team_range_short == range(1, NumIdeas)
team_range == range(1, NumIdeas + 1)

(***************************************************************************)
(* Line 37: the associates, one per identifier of range(1, 301).           *)
(***************************************************************************)
AssociatePools ==
    LET ids == Items(associates_range)
    IN  { [ i \in DOMAIN ids |->
              [ associate_id |-> ids[i], name |-> names[i], role |-> rs[i] ] ] :
          names \in [ DOMAIN ids -> choice("name", fake_names) ],
          rs \in [ DOMAIN ids -> choice("associate_role", roles) ] }

(***************************************************************************)
(* generate_idea_data (lines 40-75).  d holds the outcomes of its draws,   *)
(* one field per call of random or fake, in the order of the calls.        *)
(***************************************************************************)
submitter_ids == randint("submitter_id", 1, MaxSubmitterId)                     \* line 41
\* As challenge_opportunities, drawn from the other vocabulary.
challenge_from_groups == choice("challenge_opportunity", business_groups)
challenge_opportunities == choice("challenge_opportunity", business_opportunities) \* line 46
\* As scores, randint(0, 100) in place of randint(1, 100).
scores_from_zero == randint("score", 0, MaxScore)
scores == randint("score", 1, MaxScore)                                          \* line 68

IdeaDraws ==
    [ submitter_id          : submitter_ids,
      business_opportunity  : choice("business_opportunity", business_opportunities),
      business_group        : choice("business_group", business_groups),
      challenge_opportunity : challenge_opportunities,
      scalability           : choice("scalability", scalabilities),
      novelty               : choice("novelty", novelties),
      prototype_slug        : choice("prototype_slug", fake_slugs),
      second_slug           : choice("second_slug", fake_slugs),
      quarter               : randint("quarter", 1, NumQuarters),
      build_phase           : choice("build_phase", build_phases),
      build_preference      : choice("build_preference", build_preferences),
      code_preference       : choice("code_preference", code_preferences),
      created_at            : choice("created_at", fake_dates),
      score                 : scores ]

title(d) == d.business_opportunity \o " for " \o d.business_group

summary(d) ==
    "A groundbreaking idea that leverages " \o d.business_opportunity
        \o " for " \o d.business_group \o "."

\* As additional_info, embedding the challenge drawn on line 46.
additional_info_of_challenge(d) == "Uses " \o d.challenge_opportunity \o " techniques."

additional_info(d) == "Uses " \o d.business_opportunity \o " techniques."

generate_idea_data(id, d) ==
    << id, d.submitter_id, title(d), summary(d), d.challenge_opportunity,
       d.scalability, d.novelty,
       "Increased productivity, reduced costs",
       "Security concerns, implementation challenges",
       "Responsible AI practices with transparency",
       additional_info(d),
       "http://prototype.ai/" \o d.prototype_slug,
       "6 months",
       "Successful implementation and adoption",
       "Increased market share and brand recognition",
       "High scalability potential for large enterprises",
       "Subscription-based business model",
       "Growing market competition but still fragmented",
       "Continuous improvement and monitoring",
       "http://secondfile.com/" \o d.second_slug,
       "Q" \o ToString(d.quarter) \o " 2024",
       d.build_phase, d.build_preference, d.code_preference,
       d.created_at, d.created_at, d.business_group, d.score >>

\* The header of ideas.csv (lines 90-96).
ideas_header ==
    << "idea_id", "submitter_id", "title", "summary", "challenge_opportunity", "scalability",
       "novelty", "benefits", "risks", "responsible_ai", "additional_info", "prototype_url",
       "timeline", "success_metrics", "expected_outcomes", "scalability_potential",
       "business_model", "competitive_analysis", "risk_mitigation", "second_file_url",
       "participation_week", "build_phase", "build_preference", "code_preference",
       "created_at", "updated_at", "business_group", "score" >>

(***************************************************************************)
(* generate_idea_team_data (lines 78-84).                                  *)
(***************************************************************************)
TeamDraws ==
    [ role           : choice("team_role", roles),
      associate      : choice("associate", associates),
      is_primary     : random_below_tenth("is_primary"),
      business_group : choice("team_business_group", business_groups) ]

generate_idea_team_data(id, d) ==
    << id, d.associate.associate_id, d.is_primary, d.role, d.business_group >>

\* The header of idea_team.csv (line 104).
idea_team_header == << "idea_id", "associate_id", "is_primary", "role", "business_group" >>

\* The column of a header's field: row[Col(header, name)] is that field of a row.
Col(header, name) == CHOOSE i \in DOMAIN header : header[i] = name


(***************************************************************************)
(* Files.  open(name, mode="w") creates the file or empties it; a row      *)
(* written is a line appended.  The with statement releases the handle     *)
(* when its block is left, by the end of the block or by an exception.     *)
(***************************************************************************)
IDEAS == "ideas.csv"
IDEA_TEAM == "idea_team.csv"

Absent == [ exists |-> FALSE, lines |-> << >> ]
Created == [ exists |-> TRUE, lines |-> << >> ]
writerow(file, row) == [ file EXCEPT !.lines = Append(@, row) ]

\* What a failed write leaves on disk: some prefix of the lines written, as
\* buffered lines may never reach the disk.
Truncations(file) ==
    { [ file EXCEPT !.lines = SubSeq(@, 1, k) ] : k \in 0..Len(file.lines) }

\* As Raise, with each pass wrapped in a handler that swallows the exception.
RaiseCaught(name) ==
    /\ pc' = (IF name = IDEAS THEN "team_open" ELSE "print")
    /\ error' = name

\* An exception nothing catches: the module body stops where it is.
Raise(name) ==
    /\ pc' = "aborted"
    /\ error' = name

\* As Release, the file opened without with and never closed.
ReleaseNothing(name) == open_files

\* Leaving a with block: the handle of `name` is released.
Release(name) == open_files \ {name}

(***************************************************************************)
(* The module body (lines 37, 112-115).                                    *)
(***************************************************************************)
RunRngs == {RngSizes, RngAssociates, RngPrimary}

\* The interpreter is about to run line 37, in a working directory that holds
\* neither output file.
Init ==
    /\ rng \in RunRngs
    /\ pc = "associates"
    /\ associates = << >>
    /\ idea_id = 0
    /\ members = 0
    /\ ideas_csv = Absent
    /\ idea_team_csv = Absent
    /\ open_files = {}
    /\ stdout = << >>
    /\ error = NoError
    /\ ret = << >>

\* Line 37.
BuildAssociates ==
    /\ pc = "associates"
    /\ associates' \in AssociatePools
    /\ pc' = "ideas_open"
    /\ UNCHANGED << rng, idea_id, members, ideas_csv, idea_team_csv, open_files,
                    stdout, error, ret >>

(***************************************************************************)
(* generate_ideas_csv (lines 87-98).                                       *)
(***************************************************************************)
\* Line 88.
OpenIdeas ==
    /\ pc = "ideas_open"
    /\ ideas_csv' = Created
    /\ open_files' = open_files \cup {IDEAS}
    /\ pc' = "ideas_header"
    /\ UNCHANGED << rng, associates, idea_id, members, idea_team_csv, stdout, error, ret >>

\* Lines 90-96, and the loop's first value (line 97).
WriteIdeasHeader ==
    /\ pc = "ideas_header"
    /\ ideas_csv' = writerow(ideas_csv, ideas_header)
    /\ idea_id' = ideas_range.start
    /\ pc' = "ideas_rows"
    /\ UNCHANGED << rng, associates, members, idea_team_csv, open_files, stdout, error, ret >>

\* Lines 97-98: one turn of the loop.
WriteIdeaRow ==
    /\ pc = "ideas_rows"
    /\ idea_id < ideas_range.stop
    /\ \E d \in IdeaDraws :
          ideas_csv' = writerow(ideas_csv, generate_idea_data(idea_id, d))
    /\ idea_id' = idea_id + 1
    /\ UNCHANGED << rng, pc, associates, members, idea_team_csv, open_files,
                    stdout, error, ret >>

\* The loop is exhausted: the with block ends and the function returns.
CloseIdeas ==
    /\ pc = "ideas_rows"
    /\ ~ (idea_id < ideas_range.stop)
    /\ open_files' = Release(IDEAS)
    /\ pc' = "team_open"
    /\ UNCHANGED << rng, associates, idea_id, members, ideas_csv, idea_team_csv,
                    stdout, error, ret >>

(***************************************************************************)
(* generate_idea_team_csv (lines 101-109).                                 *)
(***************************************************************************)
\* Line 102.
OpenTeam ==
    /\ pc = "team_open"
    /\ idea_team_csv' = Created
    /\ open_files' = open_files \cup {IDEA_TEAM}
    /\ pc' = "team_header"
    /\ UNCHANGED << rng, associates, idea_id, members, ideas_csv, stdout, error, ret >>

\* Line 104, and the outer loop's first value (line 107).
WriteTeamHeader ==
    /\ pc = "team_header"
    /\ idea_team_csv' = writerow(idea_team_csv, idea_team_header)
    /\ idea_id' = team_range.start
    /\ members' = 0
    /\ pc' = "team_ideas"
    /\ UNCHANGED << rng, associates, ideas_csv, open_files, stdout, error, ret >>

\* As team_sizes, randint(0, 5) in place of randint(1, 5).
team_sizes_from_zero == randint("team_size", 0, MaxTeamSize)

\* random.randint(1, 5) on line 108.
team_sizes == randint("team_size", 1, MaxTeamSize)

\* Lines 107-108: the outer loop takes an idea and draws its team size; an
\* empty range leaves the inner loop at once.
DrawTeamSize ==
    /\ pc = "team_ideas"
    /\ idea_id < team_range.stop
    /\ \E n \in team_sizes :
          IF n > 0
          THEN /\ members' = n
               /\ pc' = "team_rows"
               /\ idea_id' = idea_id
          ELSE /\ members' = 0
               /\ pc' = "team_ideas"
               /\ idea_id' = idea_id + 1
    /\ UNCHANGED << rng, associates, ideas_csv, idea_team_csv, open_files,
                    stdout, error, ret >>

\* Line 109: one turn of the inner loop; after its last turn the outer loop
\* moves to the next idea.
WriteTeamRow ==
    /\ pc = "team_rows"
    /\ members > 0
    /\ \E d \in TeamDraws :
          idea_team_csv' = writerow(idea_team_csv, generate_idea_team_data(idea_id, d))
    /\ members' = members - 1
    /\ IF members = 1
       THEN idea_id' = idea_id + 1 /\ pc' = "team_ideas"
       ELSE idea_id' = idea_id /\ pc' = "team_rows"
    /\ UNCHANGED << rng, associates, ideas_csv, open_files, stdout, error, ret >>

\* The outer loop is exhausted: the with block ends and the function returns.
CloseTeam ==
    /\ pc = "team_ideas"
    /\ ~ (idea_id < team_range.stop)
    /\ open_files' = Release(IDEA_TEAM)
    /\ pc' = "print"
    /\ UNCHANGED << rng, associates, idea_id, members, ideas_csv, idea_team_csv,
                    stdout, error, ret >>

\* Line 115.
PrintDone ==
    /\ pc = "print"
    /\ stdout' = Append(stdout, "CSV files generated successfully!")
    /\ pc' = "done"
    /\ UNCHANGED << rng, associates, idea_id, members, ideas_csv, idea_team_csv,
                    open_files, error, ret >>

(***************************************************************************)
(* I/O failures.  open raises before the file is created; a write raises   *)
(* with the with block open, which releases the handle on the way out.     *)
(* Nothing in the script catches either.                                   *)
(***************************************************************************)
OpenIdeasFails ==
    /\ pc = "ideas_open"
    /\ Raise(IDEAS)
    /\ UNCHANGED << rng, associates, idea_id, members, ideas_csv, idea_team_csv,
                    open_files, stdout, ret >>

WriteIdeasFails ==
    /\ \/ pc = "ideas_header"
       \/ pc = "ideas_rows" /\ idea_id < ideas_range.stop
    /\ ideas_csv' \in Truncations(ideas_csv)
    /\ open_files' = Release(IDEAS)
    /\ Raise(IDEAS)
    /\ UNCHANGED << rng, associates, idea_id, members, idea_team_csv, stdout, ret >>

OpenTeamFails ==
    /\ pc = "team_open"
    /\ Raise(IDEA_TEAM)
    /\ UNCHANGED << rng, associates, idea_id, members, ideas_csv, idea_team_csv,
                    open_files, stdout, ret >>

WriteTeamFails ==
    /\ \/ pc = "team_header"
       \/ pc = "team_rows" /\ members > 0
    /\ idea_team_csv' \in Truncations(idea_team_csv)
    /\ open_files' = Release(IDEA_TEAM)
    /\ Raise(IDEA_TEAM)
    /\ UNCHANGED << rng, associates, idea_id, members, ideas_csv, stdout, ret >>

NextOk ==
    \/ BuildAssociates
    \/ OpenIdeas
    \/ WriteIdeasHeader
    \/ WriteIdeaRow
    \/ CloseIdeas
    \/ OpenTeam
    \/ WriteTeamHeader
    \/ DrawTeamSize
    \/ WriteTeamRow
    \/ CloseTeam
    \/ PrintDone

IOFails ==
    \/ OpenIdeasFails
    \/ WriteIdeasFails
    \/ OpenTeamFails
    \/ WriteTeamFails

Next == NextOk \/ IOFails

\* A run in which any open or write may fail.
Spec == Init /\ [][Next]_vars

\* A run without I/O failure: the interpreter keeps executing the next
\* statement of the single thread.
LiveSpec == Init /\ [][NextOk]_vars /\ WF_vars(NextOk)

(***************************************************************************)
(* generate_idea_data called on its own, on any idea_id.                   *)
(***************************************************************************)
IdeaRngs == {RngNumeric, RngVocabulary}

IdeaInit ==
    /\ rng \in IdeaRngs
    /\ pc = "call"
    /\ associates = << >>
    /\ idea_id = 0
    /\ members = 0
    /\ ideas_csv = Absent
    /\ idea_team_csv = Absent
    /\ open_files = {}
    /\ stdout = << >>
    /\ error = NoError
    /\ ret = << >>

CallGenerateIdeaData ==
    /\ pc = "call"
    /\ \E id \in ideas_range.start..(ideas_range.stop - 1), d \in IdeaDraws :
          ret' = generate_idea_data(id, d)
    /\ pc' = "returned"
    /\ UNCHANGED << rng, associates, idea_id, members, ideas_csv, idea_team_csv,
                    open_files, stdout, error >>

IdeaSpec == IdeaInit /\ [][CallGenerateIdeaData]_vars


(***************************************************************************)
(* Properties.                                                             *)
(***************************************************************************)
\* The rows of a file after its header.
DataRows(file) == SubSeq(file.lines, 2, Len(file.lines))

\* A field of a row of ideas.csv, of idea_team.csv.
IdeaField(row, name) == row[Col(ideas_header, name)]
TeamField(row, name) == row[Col(idea_team_header, name)]

\* generate_ideas_csv has returned; generate_idea_team_csv has returned.
IdeasPassDone ==
    \/ pc \in {"team_open", "team_header", "team_ideas", "team_rows", "print", "done"}
    \/ pc = "aborted" /\ error = IDEA_TEAM
TeamPassDone == pc \in {"print", "done"}

\* The rows of idea_team.csv of one idea.
TeamRowsOf(id) ==
    LET rows == DataRows(idea_team_csv)
    IN  { i \in DOMAIN rows : TeamField(rows[i], "idea_id") = id }

\* C1: at every point the data rows of ideas.csv are the ids 1..k in order,
\* and once generate_ideas_csv has returned every id of 1..NumIdeas has
\* exactly one row, the rows in strictly ascending order of idea_id.
C1_IdeasRowsContiguous ==
    LET rows == DataRows(ideas_csv)
        id(i) == IdeaField(rows[i], "idea_id")
    IN  /\ \A i \in DOMAIN rows : id(i) = i
        /\ IdeasPassDone =>
              /\ \A n \in 1..NumIdeas :
                    Cardinality({ i \in DOMAIN rows : id(i) = n }) = 1
              /\ \A i, j \in DOMAIN rows : i < j => id(i) < id(j)

C1_Witness ==
    /\ IdeasPassDone
    /\ Len(DataRows(ideas_csv)) = NumIdeas
    /\ NumIdeas > 1

\* C2: every row of idea_team.csv has an idea_id in 1..NumIdeas and an
\* associate_id in 1..300 that is the identifier of an associate of the pool.
C2_TeamRowsReferToPool ==
    LET rows == DataRows(idea_team_csv)
    IN  \A i \in DOMAIN rows :
           /\ TeamField(rows[i], "idea_id") \in 1..NumIdeas
           /\ TeamField(rows[i], "associate_id") \in 1..300
           /\ \E k \in DOMAIN associates :
                 associates[k].associate_id = TeamField(rows[i], "associate_id")

C2_Witness ==
    LET rows == DataRows(idea_team_csv)
    IN  /\ \E i \in DOMAIN rows : TeamField(rows[i], "associate_id") = 300
        /\ \E i \in DOMAIN rows : TeamField(rows[i], "associate_id") = 1
        /\ Len(associates) = 300

\* C3: once generate_idea_team_csv has returned every idea of 1..NumIdeas has
\* between 1 and 5 rows, and at every point the rows are in ascending order
\* of idea_id, so the rows of one idea are contiguous.
C3_TeamRowsGrouped ==
    LET rows == DataRows(idea_team_csv)
    IN  /\ \A i, j \in DOMAIN rows :
              i < j => TeamField(rows[i], "idea_id") <= TeamField(rows[j], "idea_id")
        /\ TeamPassDone =>
              \A n \in 1..NumIdeas : Cardinality(TeamRowsOf(n)) \in 1..5

C3_Witness ==
    /\ TeamPassDone
    /\ \E n \in 1..NumIdeas : Cardinality(TeamRowsOf(n)) = 5
    /\ \E n \in 1..NumIdeas : Cardinality(TeamRowsOf(n)) = 1

\* C4: in every row generate_idea_data returns, submitter_id is an integer
\* of 1..300 and score an integer of 1..100.
C4_SubmitterAndScoreInRange ==
    pc = "returned" =>
        /\ IdeaField(ret, "submitter_id") \in 1..300
        /\ IdeaField(ret, "score") \in 1..100

C4_Witness ==
    /\ pc = "returned"
    /\ IdeaField(ret, "submitter_id") = 300
    /\ IdeaField(ret, "score") = 100

\* C5: without I/O failure a run terminates; at its end both files exist,
\* ideas.csv has NumIdeas + 1 lines and idea_team.csv between NumIdeas + 1
\* and 5 * NumIdeas + 1; the completion message is printed only with both
\* files finished and closed.
C5_Finished ==
    /\ ideas_csv.exists /\ idea_team_csv.exists
    /\ open_files = {}
    /\ Len(ideas_csv.lines) = NumIdeas + 1
    /\ Len(idea_team_csv.lines) \in (NumIdeas + 1)..(5 * NumIdeas + 1)

C5_RunTerminatesWithBothFiles ==
    /\ <>(pc = "done")
    /\ [](pc = "done" => C5_Finished /\ Len(stdout) = 1)
    /\ [](stdout # << >> => pc = "done" /\ C5_Finished)

C5_Witness ==
    /\ pc = "done"
    /\ stdout # << >>
    /\ Len(idea_team_csv.lines) = 5 * NumIdeas + 1

\* C6: a failed open or write is not caught: the run stops there with the
\* handle released and nothing printed, a failure on ideas.csv leaves
\* idea_team.csv never created, and no later step changes anything, the
\* truncated file included.
C6_Aborted ==
    /\ pc = "aborted"
    /\ stdout = << >>
    /\ open_files = {}
    /\ error = IDEAS => ~ idea_team_csv.exists

C6_FailureAbortsRun ==
    /\ [](error # NoError => C6_Aborted)
    /\ [][error # NoError => UNCHANGED vars]_vars

C6_Witness ==
    /\ error = IDEAS
    /\ ideas_csv.exists
    /\ Len(ideas_csv.lines) \in 2..NumIdeas

\* The closed vocabularies have `opportunities` and `groups` entries, and a
\* returned row carries values of them only.
VocabulariesOfSize(opportunities, groups) ==
    LET os == { business_opportunities[i] : i \in DOMAIN business_opportunities }
        gs == { business_groups[i] : i \in DOMAIN business_groups }
    IN  /\ Cardinality(os) = opportunities
        /\ Cardinality(gs) = groups
        /\ pc = "returned" =>
              /\ IdeaField(ret, "challenge_opportunity") \in os
              /\ IdeaField(ret, "business_group") \in gs
              /\ \E o \in os :
                    IdeaField(ret, "title") = o \o " for " \o IdeaField(ret, "business_group")

\* C7 as stated: the vocabulary of business_opportunity and
\* challenge_opportunity has exactly 21 entries, that of business_group
\* exactly 29, and no row carries a value outside them.
C7_Original == VocabulariesOfSize(21, 29)

\* C7: the vocabulary of business_opportunity and challenge_opportunity has
\* exactly 22 entries, that of business_group exactly 29, and no row carries
\* a value outside them.
C7_VocabulariesClosed == VocabulariesOfSize(22, 29)

C7_Witness ==
    /\ pc = "returned"
    /\ IdeaField(ret, "challenge_opportunity") = business_opportunities[22]
    /\ IdeaField(ret, "business_group") = business_groups[29]

\* C8: at most one file handle is open at any time; idea_team.csv is opened
\* only with ideas.csv complete (header and NumIdeas rows) and closed; the
\* associates are never modified once built.
C8_OnePassAtATime ==
    /\ Cardinality(open_files) <= 1
    /\ (idea_team_csv.exists \/ IDEA_TEAM \in open_files) =>
          /\ IDEAS \notin open_files
          /\ Len(ideas_csv.lines) = NumIdeas + 1
          /\ ideas_csv.lines[1] = ideas_header

C8_PassesSequential ==
    /\ []C8_OnePassAtATime
    /\ [][pc # "associates" => associates' = associates]_vars

C8_Witness ==
    /\ IDEA_TEAM \in open_files
    /\ Len(idea_team_csv.lines) > 1
    /\ Len(associates) = 300

\* C9: in every row generate_idea_data returns, one business opportunity o
\* gives title = "<o> for <business_group>" with the row's own
\* business_group, and the same o is embedded in summary and additional_info.
C9_TextFieldsConsistent ==
    pc = "returned" =>
        \E i \in DOMAIN business_opportunities :
            LET o == business_opportunities[i]
                g == IdeaField(ret, "business_group")
            IN  /\ IdeaField(ret, "title") = o \o " for " \o g
                /\ IdeaField(ret, "summary") =
                      "A groundbreaking idea that leverages " \o o \o " for " \o g \o "."
                /\ IdeaField(ret, "additional_info") = "Uses " \o o \o " techniques."

\* A row whose challenge_opportunity is another entry than the one in its title.
C9_Witness ==
    /\ pc = "returned"
    /\ IdeaField(ret, "title") # IdeaField(ret, "challenge_opportunity")
                                    \o " for " \o IdeaField(ret, "business_group")
    /\ IdeaField(ret, "additional_info") #
          "Uses " \o IdeaField(ret, "challenge_opportunity") \o " techniques."

\* C10: whatever rows are already written, the next row of idea_team.csv can
\* carry is_primary true and can carry is_primary false: the flag is drawn
\* per row, and nothing keeps the number of primaries of an idea at one.
C10_PrimaryDrawnPerRow ==
    (rng = RngPrimary /\ pc = "team_rows" /\ members > 0) =>
        \A b \in BOOLEAN :
            ENABLED ( /\ WriteTeamRow
                      /\ TeamField(idea_team_csv'.lines[Len(idea_team_csv'.lines)],
                                   "is_primary") = b )

\* The primaries among the rows of one idea.
PrimariesOf(id) ==
    LET rows == DataRows(idea_team_csv)
    IN  { i \in TeamRowsOf(id) : TeamField(rows[i], "is_primary") }

\* A finished run with an idea without primary and an idea with two.
C10_Witness ==
    /\ TeamPassDone
    /\ \E n \in 1..NumIdeas : PrimariesOf(n) = {}
    /\ \E n \in 1..NumIdeas : Cardinality(PrimariesOf(n)) > 1

====
